---- MODULE Spec2Model ----
(***************************************************************************)
(* Model of pkg/builder/builder.go: the Server builder (registration of    *)
(* resources and sub-resources, deferred errors, Build) and the            *)
(* singletonProvider that memoizes a handler factory behind a sync.Once.   *)
(***************************************************************************)
EXTENDS Integers, Sequences, FiniteSets, TLC

(***************************************************************************)
(* Bounds of the model.                                                    *)
(***************************************************************************)
\* number of registration calls (With*) before Build
MaxOps == 2
\* number of invocations of one handler factory in one run
MaxCalls == 2
\* number of WithResource calls behind an initial state of SpecVersions
MaxRegs == 3

(***************************************************************************)
(* The universe the inputs are drawn from.                                 *)
(***************************************************************************)
Groups == {"apps"}
Versions == {"v1", "v2"}
Resources == {"widgets"}
SubPaths == {"status", "scale"}
\* caller-supplied rest.ResourceHandlerProvider values
Handlers == {"F1", "F2"}
\* caller-supplied rest.Strategy and rest.StoreFn values
Strategies == {"S1"}
StoreFns == {"Fn1"}
\* caller-supplied scheme installers: one that succeeds, one that fails
UserInstallers == {"installOk", "installFail"}
\* schemes a caller may add besides apiserver.Scheme
ExtraSchemes == {"extraScheme"}
\* goroutines of the serving layer that look handlers up
Callers == {"c1", "c2", "c3"}

Nil == "nil"
BaseScheme == "apiserver.Scheme"
SubResourceErr ==
  "subresources must be registered with a strategy or handler the first time they are registered"

\* schema.GroupVersionResource and its projections
GVRs == [group : Groups, version : Versions, resource : Resources]
GroupResource(gvr) == [group |-> gvr.group, resource |-> gvr.resource]
GroupVersion(gvr) == [group |-> gvr.group, version |-> gvr.version]
WithResourceName(gvr, r) == [group |-> gvr.group, version |-> gvr.version, resource |-> r]
\* gvr.Resource + "/" + subResourcePath
SubResourceOf(gvr, path) == WithResourceName(gvr, gvr.resource \o "/" \o path)

\* resource.Object values: the key the type reports and the capabilities its
\* Go type implements (status: resource.ObjectWithStatusSubResource; rest: one
\* of resourcerest.Creator/Updater/Getter/Lister; defaulter:
\* resourcestrategy.Defaulter).  Every combination of status and rest occurs at
\* every version; the v1 types are the ones that implement Defaulter.
Objs == {o \in [gvr : GVRs, status : BOOLEAN, rest : BOOLEAN, defaulter : BOOLEAN] :
           o.defaulter = (o.gvr.version = "v1")}
\* request objects of sub-resources (runtime.Object); the type implements Defaulter
Requests == [request : {"Scale"}, defaulter : {TRUE}]

(***************************************************************************)
(* rest.ResourceHandlerProvider values.  A factory is named by the call    *)
(* that built it; the method value s.Get of a singletonProvider s is a     *)
(* provider too (s is the object's index in the heap).                     *)
(***************************************************************************)
NoObj == [none |-> TRUE]
Factory(kind, of, arg) == [kind |-> kind, of |-> of, arg |-> arg]
HandlerFactory(h) == Factory("handler", NoObj, h)
NoFactory == Factory(Nil, NoObj, Nil)
SingletonGet(s) == [kind |-> "singletonProvider.Get", of |-> [s |-> s], arg |-> Nil]
IsSingletonGet(sp) == sp.kind = "singletonProvider.Get"

VARIABLES
  errs,                  \* Server.errs
  storage,               \* Server.storage: GroupResource -> *singletonProvider
  heap,                  \* the singletonProvider objects, in allocation order
  groupVersions,         \* Server.groupVersions (its key set)
  orderedGroupVersions,  \* Server.orderedGroupVersions
  schemes,               \* Server.schemes
  schemeBuilder,         \* Server.schemeBuilder
  APIs,                  \* apiserver.APIs: GroupVersionResource -> provider
  defaulting,            \* types with a defaulting func in apiserver.Scheme
  schemeState,           \* what the installers did to each scheme
  installLog,            \* <<scheme, installer>> in the order Build applied them
  built,                 \* outcome of the last Build()
  ops,                   \* registration calls made so far
  lastCall,              \* the last registration call and its arguments
  calls,                 \* invocations of each factory so far
  workers,               \* the goroutines of the serving layer
  pc, target, via,       \* each caller's position, provider and key in a lookup
  returned               \* every (key, storage, err) a lookup has returned

vars == <<errs, storage, heap, groupVersions, orderedGroupVersions, schemes, schemeBuilder,
          APIs, defaulting, schemeState, installLog, built, ops, lastCall, calls,
          workers, pc, target, via, returned>>

\* what the steps of a lookup leave alone (heap holds the Once and its result)
builderVars == <<errs, storage, groupVersions, orderedGroupVersions, schemes,
                 schemeBuilder, APIs, defaulting, schemeState, installLog, built, ops,
                 lastCall>>
lookupVars == <<calls, workers, pc, target, via, returned>>

(***************************************************************************)
(* The registry part of the state as one value, so that the helpers every  *)
(* registration call goes through can be composed as the code calls them.  *)
(***************************************************************************)
Registry ==
  [storage |-> storage, heap |-> heap, groupVersions |-> groupVersions,
   orderedGroupVersions |-> orderedGroupVersions, APIs |-> APIs,
   defaulting |-> defaulting]

\* a regsitryrest.Storage value: the handler the n-th call of a factory built
Storage(f, n) == [handler |-> f, n |-> n]
NilStorage == Storage(NoFactory, 0)
\* an error value: the failure of the n-th call of a factory
FactoryErr(f, n) == [failed |-> f, n |-> n]
NilErr == FactoryErr(NoFactory, 0)

\* &singletonProvider{Provider: sp}
NewSingleton(sp) ==
  [Provider |-> sp, done |-> FALSE, m |-> Nil, storage |-> NilStorage, err |-> NilErr]

\* withGroupVersions without the found check: every observation is appended
withGroupVersionsAppending(r, gv) ==
  [r EXCEPT !.groupVersions = @ \cup {gv},
            !.orderedGroupVersions = Append(@, gv)]

\* Server.withGroupVersions, for one group-version
withGroupVersions(r, gv) ==
  IF gv \in r.groupVersions
    THEN r
    ELSE [r EXCEPT !.groupVersions = @ \cup {gv},
                   !.orderedGroupVersions = Append(@, gv)]

\* StoreProvider without the found check: a later registration replaces the
\* instance stored for the group-resource
StoreProviderReplacing(r, gr, sp) ==
  [r EXCEPT !.heap = Append(@, NewSingleton(sp)),
            !.storage = (gr :> (Len(r.heap) + 1)) @@ @]

\* the storage step of forGroupVersionResource: keep an existing instance
StoreProvider(r, gr, sp) ==
  IF gr \in DOMAIN r.storage
    THEN r
    ELSE [r EXCEPT !.heap = Append(@, NewSingleton(sp)),
                   !.storage = (gr :> (Len(r.heap) + 1)) @@ @]

\* the binding step of forGroupVersionResource: apiserver.APIs[gvr] = sp
BindAPI(r, gvr, sp) == [r EXCEPT !.APIs = (gvr :> sp) @@ @]

\* forGroupVersionResource observing the group-version only when it creates
\* the provider of the group-resource
forGroupVersionResourceObservingNew(r, gvr, obj, sp) ==
  LET r1 == IF GroupResource(gvr) \in DOMAIN r.storage THEN r
            ELSE withGroupVersions(r, GroupVersion(gvr))
      r2 == StoreProvider(r1, GroupResource(gvr), sp)
      r3 == IF obj.defaulter THEN [r2 EXCEPT !.defaulting = @ \cup {obj}] ELSE r2
  IN  BindAPI(r3, gvr, sp)

\* Server.forGroupVersionResource
forGroupVersionResource(r, gvr, obj, sp) ==
  LET r1 == withGroupVersions(r, GroupVersion(gvr))
      r2 == StoreProvider(r1, GroupResource(gvr), sp)
      r3 == IF obj.defaulter THEN [r2 EXCEPT !.defaulting = @ \cup {obj}] ELSE r2
  IN  BindAPI(r3, gvr, sp)

\* the found branch of a registration: s, found := a.storage[gr]
Found(r, gr) == gr \in DOMAIN r.storage
StoredGet(r, gr) == SingletonGet(r.storage[gr])
SingletonOf(sp) == sp.of.s

\* WithResource testing the object's own rest interfaces before it looks for
\* a provider of the group-resource
WithResourceRegOwnStorageFirst(r, obj) ==
  LET gvr == obj.gvr
      st  == SubResourceOf(gvr, "status")
  IN  IF obj.rest
        THEN forGroupVersionResource(r, gvr, obj,
               Factory("StaticHandlerProvider", obj, Nil))
      ELSE IF Found(r, GroupResource(gvr))
        THEN forGroupVersionResource(r, gvr, obj, StoredGet(r, GroupResource(gvr)))
      ELSE LET r1 == forGroupVersionResource(r, gvr, obj, Factory("rest.New", obj, Nil))
           IN  IF ~obj.status THEN r1
               ELSE IF Found(r1, GroupResource(st))
                 THEN forGroupVersionResource(r1, st, obj,
                        StoredGet(r1, GroupResource(st)))
                 ELSE forGroupVersionResource(r1, st, obj,
                        Factory("rest.NewStatus", obj, Nil))

\* Server.WithResource, on the registry
WithResourceReg(r, obj) ==
  LET gvr == obj.gvr
      st  == SubResourceOf(gvr, "status")
  IN  IF Found(r, GroupResource(gvr))
        THEN forGroupVersionResource(r, gvr, obj, StoredGet(r, GroupResource(gvr)))
      ELSE IF obj.rest
        THEN forGroupVersionResource(r, gvr, obj,
               Factory("StaticHandlerProvider", obj, Nil))
      ELSE LET r1 == forGroupVersionResource(r, gvr, obj, Factory("rest.New", obj, Nil))
           IN  IF ~obj.status THEN r1
               ELSE IF Found(r1, GroupResource(st))
                 THEN forGroupVersionResource(r1, st, obj,
                        StoredGet(r1, GroupResource(st)))
                 ELSE forGroupVersionResource(r1, st, obj,
                        Factory("rest.NewStatus", obj, Nil))

\* Server.WithResourceAndStrategy, on the registry
WithResourceAndStrategyReg(r, obj, strategy) ==
  LET gvr == obj.gvr
      r1  == forGroupVersionResource(r, gvr, obj,
               Factory("rest.NewWithStrategy", obj, strategy))
  IN  IF obj.status
        THEN forGroupVersionResource(r1, SubResourceOf(gvr, "status"), obj,
               Factory("rest.NewStatusWithStrategy", obj, strategy))
        ELSE r1

\* Server.WithResourceAndHandler, on the registry
WithResourceAndHandlerReg(r, obj, sp) ==
  forGroupVersionResource(r, obj.gvr, obj, sp)

\* Server.WithResourceAndStorage, on the registry
WithResourceAndStorageReg(r, obj, fn) ==
  LET gvr == obj.gvr
      r1  == forGroupVersionResource(r, gvr, obj, Factory("rest.NewWithFn", obj, fn))
  IN  IF obj.status
        THEN forGroupVersionResource(r1, SubResourceOf(gvr, "status"), obj,
               Factory("rest.NewStatusWithFn", obj, fn))
        ELSE r1

\* Server.WithSubResource: TRUE when the child's group-resource has a provider
SubResourceFound(r, parent, path) ==
  Found(r, GroupResource(SubResourceOf(parent.gvr, path)))

\* Server.WithSubResource, found branch, on the registry
WithSubResourceReg(r, parent, path, request) ==
  LET gvr == SubResourceOf(parent.gvr, path)
  IN  forGroupVersionResource(r, gvr, request, StoredGet(r, GroupResource(gvr)))

\* Server.WithSubResourceAndStrategy, on the registry
WithSubResourceAndStrategyReg(r, parent, path, request, strategy) ==
  forGroupVersionResource(r, SubResourceOf(parent.gvr, path), request,
    Factory("rest.NewWithStrategy", request, strategy))

\* Server.WithSubResourceAndHandler, on the registry
WithSubResourceAndHandlerReg(r, parent, path, request, sp) ==
  forGroupVersionResource(r, SubResourceOf(parent.gvr, path), request, sp)

(***************************************************************************)
(* Scheme installers and Build.                                            *)
(***************************************************************************)
\* resource.AddToScheme(obj)
AddToSchemeInstaller(obj) == [kind |-> "AddToScheme", of |-> obj, id |-> Nil]
\* a caller's installer, given to WithAdditionalSchemeInstallers
UserInstaller(id) == [kind |-> "user", of |-> NoObj, id |-> id]
\* the closure Build registers (version priorities and meta types)
VersionPriorityInstaller == [kind |-> "versionPriority", of |-> NoObj, id |-> Nil]

\* the bytes of a version string, for Go's string comparison
VersionBytes(v) ==
  CASE v = "v1"  -> <<118, 49>>
    [] v = "v2"  -> <<118, 50>>
    [] v = "v10" -> <<118, 49, 48>>
    [] v = "v1beta1" -> <<118, 49, 98, 101, 116, 97, 49>>

\* a < b for Go strings: bytewise, a proper prefix first
RECURSIVE BytesLess(_, _)
BytesLess(a, b) ==
  IF b = <<>> THEN FALSE
  ELSE IF a = <<>> THEN TRUE
  ELSE IF Head(a) # Head(b) THEN Head(a) < Head(b)
  ELSE BytesLess(Tail(a), Tail(b))

VersionLess(v, w) == BytesLess(VersionBytes(v), VersionBytes(w))

\* the members sorted by length first and bytes second (v2 before v10)
RECURSIVE SortedShortestFirst(_)
SortedShortestFirst(vs) ==
  IF vs = {} THEN <<>>
  ELSE LET least == CHOOSE v \in vs : \A w \in vs \ {v} :
                      \/ Len(VersionBytes(v)) < Len(VersionBytes(w))
                      \/ /\ Len(VersionBytes(v)) = Len(VersionBytes(w))
                         /\ VersionLess(v, w)
       IN  <<least>> \o SortedShortestFirst(vs \ {least})

\* sets.String.List(): the members, sorted ascending
RECURSIVE SortedList(_)
SortedList(vs) ==
  IF vs = {} THEN <<>>
  ELSE LET least == CHOOSE v \in vs : \A w \in vs \ {v} : VersionLess(v, w)
       IN  <<least>> \o SortedList(vs \ {least})

\* the groupVersions map the version-priority installer builds from apiserver.APIs
APIGroups(apis) == {gvr.group : gvr \in DOMAIN apis}
APIVersionsOf(apis, g) == {gvr.version : gvr \in {k \in DOMAIN apis : k.group = g}}

\* the versions of group g in the order a.orderedGroupVersions holds them
RECURSIVE VersionsAsObserved(_, _)
VersionsAsObserved(ogvs, g) ==
  IF ogvs = <<>> THEN <<>>
  ELSE (IF Head(ogvs).group = g THEN <<Head(ogvs).version>> ELSE <<>>)
         \o VersionsAsObserved(Tail(ogvs), g)

\* a version-priority installer that takes each group's versions in the
\* order they were first observed instead of sorting them
InstallVersionPriorityAsObserved(ss, apis, ogvs) ==
  [ss EXCEPT !.priority = [g \in APIGroups(apis) |-> VersionsAsObserved(ogvs, g)] @@ @,
             !.meta = @ \cup {ogvs[i] : i \in 1..Len(ogvs)}]

\* the version-priority installer Build registers, run on the state ss of one scheme
\* with apiserver.APIs = apis and a.orderedGroupVersions = ogvs
InstallVersionPriority(ss, apis, ogvs) ==
  [ss EXCEPT !.priority = [g \in APIGroups(apis) |-> SortedList(APIVersionsOf(apis, g))] @@ @,
             !.meta = @ \cup {ogvs[i] : i \in 1..Len(ogvs)}]

\* whether installer f returns an error
InstallerFails(f) == f.kind = "user" /\ f.id = "installFail"

\* what installer f does to the state ss of one scheme
InstallInto(ss, f, apis, ogvs) ==
  CASE f.kind = "AddToScheme" -> [ss EXCEPT !.types = @ \cup {f.of}]
    [] f.kind = "user" -> [ss EXCEPT !.user = @ \cup {f.id}]
    [] f.kind = "versionPriority" -> InstallVersionPriority(ss, apis, ogvs)

\* the steps taken installer by installer, each on every scheme
RECURSIVE InstallStepsByInstaller(_, _)
InstallStepsByInstaller(ss, sb) ==
  IF sb = <<>> THEN <<>>
  ELSE [i \in 1..Len(ss) |-> <<ss[i], Head(sb)>>] \o InstallStepsByInstaller(ss, Tail(sb))

\* the <<scheme, installer>> steps of the loop in Build, in the order it takes them
RECURSIVE InstallSteps(_, _)
InstallSteps(ss, sb) ==
  IF ss = <<>> THEN <<>>
  ELSE [j \in 1..Len(sb) |-> <<Head(ss), sb[j]>>] \o InstallSteps(Tail(ss), sb)

\* a loop that goes on after an installer failed
StepsRunToEnd(steps) == steps

\* the steps that ran: all of them, or those up to the first that failed
StepsRun(steps) ==
  IF \E k \in 1..Len(steps) : InstallerFails(steps[k][2])
    THEN SubSeq(steps, 1,
           CHOOSE k \in 1..Len(steps) :
             /\ InstallerFails(steps[k][2])
             /\ \A j \in 1..(k-1) : ~InstallerFails(steps[j][2]))
    ELSE steps

\* the state of the schemes after the steps, applied left to right
RECURSIVE ApplySteps(_, _, _, _)
ApplySteps(st, steps, apis, ogvs) ==
  IF steps = <<>> THEN st
  ELSE LET sch == Head(steps)[1]
           f   == Head(steps)[2]
       IN  ApplySteps(
             IF InstallerFails(f) THEN st
             ELSE [st EXCEPT ![sch] = InstallInto(@, f, apis, ogvs)],
             Tail(steps), apis, ogvs)

\* strings.Join(lines, "\n")
RECURSIVE JoinLines(_)
JoinLines(lines) ==
  IF lines = <<>> THEN ""
  ELSE IF Len(lines) = 1 THEN lines[1]
  ELSE lines[1] \o "\n" \o JoinLines(Tail(lines))

\* errs.Error() with the count taken after the header line was added
ErrsErrorMiscount(list) ==
  JoinLines(<<ToString(Len(list) + 1) \o " errors: ">> \o list)

\* errs.Error()
ErrsError(list) == JoinLines(<<ToString(Len(list)) \o " errors: ">> \o list)

\* what Build returns, or the panic it ends in
BuildOutcome(steps, list, gvs) ==
  IF steps # <<>> /\ InstallerFails(steps[Len(steps)][2])
    THEN [kind |-> "panic", cmd |-> <<>>, err |-> steps[Len(steps)][2].id]
  ELSE IF Len(list) # 0
    THEN [kind |-> "error", cmd |-> <<>>, err |-> ErrsError(list)]
  ELSE [kind |-> "command", cmd |-> gvs, err |-> Nil]

(***************************************************************************)
(* Handler factories.                                                      *)
(***************************************************************************)
Calls(f) == IF f \in DOMAIN calls THEN calls[f] ELSE 0
CountCall(f) == (f :> (Calls(f) + 1)) @@ calls

\* the (storage, err) pairs the n-th invocation of factory f can return:
\* a StaticHandlerProvider returns the object it holds, any other factory
\* builds a new handler or fails
Outcomes(f, n) ==
  IF f.kind = "StaticHandlerProvider"
    THEN {[storage |-> Storage(f, 0), err |-> NilErr]}
    ELSE {[storage |-> Storage(f, n), err |-> NilErr],
          [storage |-> NilStorage, err |-> FactoryErr(f, n)]}

\* what a lookup of key gvr by caller c returned
Returned(c, gvr, res) == [by |-> c, via |-> gvr, storage |-> res.storage, err |-> res.err]

(***************************************************************************)
(* The initial state: a new Server, empty apiserver.APIs, no lookups.      *)
(***************************************************************************)
\* a registration call, as lastCall records it: sp is the provider the caller
\* supplied or the call built from a strategy or store function
Call(op, obj, path, sp) == [op |-> op, obj |-> obj, path |-> path, sp |-> sp]
NoCall == Call(Nil, NoObj, Nil, NoFactory)
Called(c) == ops' = ops + 1 /\ lastCall' = c

EmptyFn == [x \in {} |-> Nil]
EmptyScheme == [types |-> {}, user |-> {}, priority |-> EmptyFn, meta |-> {}]
NotBuilt == [kind |-> "none", cmd |-> <<>>, err |-> Nil]

Init ==
  /\ errs = <<>>
  /\ storage = EmptyFn
  /\ heap = <<>>
  /\ groupVersions = {}
  /\ orderedGroupVersions = <<>>
  /\ schemes = <<>>
  /\ schemeBuilder = <<>>
  /\ APIs = EmptyFn
  /\ defaulting = {}
  /\ schemeState = [sch \in {BaseScheme} \cup ExtraSchemes |-> EmptyScheme]
  /\ installLog = <<>>
  /\ built = NotBuilt
  /\ ops = 0
  /\ lastCall = NoCall
  /\ calls = EmptyFn
  /\ workers = {"c1"}
  /\ pc = [c \in Callers |-> "idle"]
  /\ target = [c \in Callers |-> 0]
  /\ via = [c \in Callers |-> NoObj]
  /\ returned = {}

\* the builder is accumulating: Build has not been called
Accumulating == built.kind = "none"
\* one more registration call fits the bound
MayCall == Accumulating /\ ops < MaxOps
\* Build returned a command: the server runs and looks handlers up
Serving == built.kind = "command"

SetRegistry(r) ==
  /\ storage' = r.storage
  /\ heap' = r.heap
  /\ groupVersions' = r.groupVersions
  /\ orderedGroupVersions' = r.orderedGroupVersions
  /\ APIs' = r.APIs
  /\ defaulting' = r.defaulting

registryVars == <<storage, heap, groupVersions, orderedGroupVersions, APIs, defaulting>>
buildVars == <<schemeState, installLog, built>>

(***************************************************************************)
(* The builder's calls.                                                    *)
(***************************************************************************)
WithAdditionalSchemeInstallers(id) ==
  /\ MayCall
  /\ schemeBuilder' = Append(schemeBuilder, UserInstaller(id))
  /\ Called(Call("WithAdditionalSchemeInstallers", NoObj, id, NoFactory))
  /\ UNCHANGED <<errs, schemes, registryVars, buildVars, lookupVars>>

WithAdditionalSchemesToBuild(sch) ==
  /\ MayCall
  /\ schemes' = Append(schemes, sch)
  /\ Called(Call("WithAdditionalSchemesToBuild", NoObj, sch, NoFactory))
  /\ UNCHANGED <<errs, schemeBuilder, registryVars, buildVars, lookupVars>>

WithResource(obj) ==
  /\ MayCall
  /\ schemeBuilder' = Append(schemeBuilder, AddToSchemeInstaller(obj))
  /\ SetRegistry(WithResourceReg(Registry, obj))
  /\ Called(Call("WithResource", obj, Nil, NoFactory))
  /\ UNCHANGED <<errs, schemes, buildVars, lookupVars>>

WithResourceAndStrategy(obj, strategy) ==
  /\ MayCall
  /\ schemeBuilder' = Append(schemeBuilder, AddToSchemeInstaller(obj))
  /\ SetRegistry(WithResourceAndStrategyReg(Registry, obj, strategy))
  /\ Called(Call("WithResourceAndStrategy", obj, Nil,
              Factory("rest.NewWithStrategy", obj, strategy)))
  /\ UNCHANGED <<errs, schemes, buildVars, lookupVars>>

WithResourceAndHandler(obj, sp) ==
  /\ MayCall
  /\ schemeBuilder' = Append(schemeBuilder, AddToSchemeInstaller(obj))
  /\ SetRegistry(WithResourceAndHandlerReg(Registry, obj, sp))
  /\ Called(Call("WithResourceAndHandler", obj, Nil, sp))
  /\ UNCHANGED <<errs, schemes, buildVars, lookupVars>>

WithResourceAndStorage(obj, fn) ==
  /\ MayCall
  /\ schemeBuilder' = Append(schemeBuilder, AddToSchemeInstaller(obj))
  /\ SetRegistry(WithResourceAndStorageReg(Registry, obj, fn))
  /\ Called(Call("WithResourceAndStorage", obj, Nil, Factory("rest.NewWithFn", obj, fn)))
  /\ UNCHANGED <<errs, schemes, buildVars, lookupVars>>

\* WithSubResource dropping the error of a first registration
WithSubResourceSilent(parent, path, request) ==
  /\ MayCall
  /\ IF SubResourceFound(Registry, parent, path)
       THEN SetRegistry(WithSubResourceReg(Registry, parent, path, request))
       ELSE UNCHANGED registryVars
  /\ errs' = errs
  /\ Called(Call("WithSubResource", parent, path, NoFactory))
  /\ UNCHANGED <<schemes, schemeBuilder, buildVars, lookupVars>>

\* WithSubResource observing the parent's group-version even when it fails
WithSubResourceObserving(parent, path, request) ==
  /\ MayCall
  /\ IF SubResourceFound(Registry, parent, path)
       THEN /\ SetRegistry(WithSubResourceReg(Registry, parent, path, request))
            /\ errs' = errs
       ELSE /\ errs' = Append(errs, SubResourceErr)
            /\ SetRegistry(withGroupVersions(Registry, GroupVersion(parent.gvr)))
  /\ Called(Call("WithSubResource", parent, path, NoFactory))
  /\ UNCHANGED <<schemes, schemeBuilder, buildVars, lookupVars>>

WithSubResource(parent, path, request) ==
  /\ MayCall
  /\ IF SubResourceFound(Registry, parent, path)
       THEN /\ SetRegistry(WithSubResourceReg(Registry, parent, path, request))
            /\ errs' = errs
       ELSE /\ errs' = Append(errs, SubResourceErr)
            /\ UNCHANGED registryVars
  /\ Called(Call("WithSubResource", parent, path, NoFactory))
  /\ UNCHANGED <<schemes, schemeBuilder, buildVars, lookupVars>>

WithSubResourceAndStrategy(parent, path, request, strategy) ==
  /\ MayCall
  /\ SetRegistry(WithSubResourceAndStrategyReg(Registry, parent, path, request, strategy))
  /\ Called(Call("WithSubResourceAndStrategy", parent, path,
              Factory("rest.NewWithStrategy", request, strategy)))
  /\ UNCHANGED <<errs, schemes, schemeBuilder, buildVars, lookupVars>>

WithSubResourceAndHandler(parent, path, request, sp) ==
  /\ MayCall
  /\ SetRegistry(WithSubResourceAndHandlerReg(Registry, parent, path, request, sp))
  /\ Called(Call("WithSubResourceAndHandler", parent, path, sp))
  /\ UNCHANGED <<errs, schemes, schemeBuilder, buildVars, lookupVars>>

Build ==
  /\ Accumulating
  /\ schemes' = Append(schemes, BaseScheme)
  /\ schemeBuilder' = Append(schemeBuilder, VersionPriorityInstaller)
  /\ LET ran == StepsRun(InstallSteps(schemes', schemeBuilder'))
     IN  /\ schemeState' = ApplySteps(schemeState, ran, APIs, orderedGroupVersions)
         /\ installLog' = installLog \o ran
         /\ built' = BuildOutcome(ran, errs, orderedGroupVersions)
  /\ UNCHANGED <<errs, registryVars, ops, lastCall, lookupVars>>

(***************************************************************************)
(* Lookups by the serving layer: apiserver.APIs[gvr](scheme, optsGetter).  *)
(***************************************************************************)
\* the key is bound to a factory itself: the factory runs on every lookup
LookupFactory(c, gvr) ==
  /\ Serving
  /\ c \in workers
  /\ pc[c] = "idle"
  /\ gvr \in DOMAIN APIs
  /\ ~IsSingletonGet(APIs[gvr])
  /\ Calls(APIs[gvr]) < MaxCalls
  /\ calls' = CountCall(APIs[gvr])
  /\ \E res \in Outcomes(APIs[gvr], Calls(APIs[gvr]) + 1) :
       returned' = returned \cup {Returned(c, gvr, res)}
  /\ UNCHANGED <<errs, schemes, schemeBuilder, registryVars, buildVars, ops, lastCall,
                 workers, pc, target, via>>

\* the key is bound to s.Get: singletonProvider.Get begins
GetEnter(c, gvr) ==
  /\ Serving
  /\ c \in workers
  /\ pc[c] = "idle"
  /\ gvr \in DOMAIN APIs
  /\ IsSingletonGet(APIs[gvr])
  /\ pc' = [pc EXCEPT ![c] = "once"]
  /\ target' = [target EXCEPT ![c] = SingletonOf(APIs[gvr])]
  /\ via' = [via EXCEPT ![c] = gvr]
  /\ UNCHANGED <<errs, schemes, schemeBuilder, registryVars, buildVars, ops, lastCall,
                 calls, workers, returned>>

\* sync.Once.Do: the fast path reads done
OnceDo(c) ==
  /\ pc[c] = "once"
  /\ pc' = [pc EXCEPT ![c] = IF heap[target[c]].done THEN "return" ELSE "lock"]
  /\ UNCHANGED <<builderVars, heap, calls, workers, target, via, returned>>

\* doSlow without mutual exclusion: the lock is taken whoever holds it
OnceLockNoExclusion(c) ==
  /\ pc[c] = "lock"
  /\ heap' = [heap EXCEPT ![target[c]].m = c]
  /\ pc' = [pc EXCEPT ![c] = "locked"]
  /\ UNCHANGED <<builderVars, calls, workers, target, via, returned>>

\* sync.Once.doSlow: o.m.Lock()
OnceLock(c) ==
  /\ pc[c] = "lock"
  /\ heap[target[c]].m = Nil
  /\ heap' = [heap EXCEPT ![target[c]].m = c]
  /\ pc' = [pc EXCEPT ![c] = "locked"]
  /\ UNCHANGED <<builderVars, calls, workers, target, via, returned>>

\* doSlow that treats a cached error as not done, and so retries
OnceSlowRetryOnError(c) ==
  /\ pc[c] = "locked"
  /\ IF heap[target[c]].done /\ heap[target[c]].err = NilErr
       THEN /\ heap' = [heap EXCEPT ![target[c]].m = Nil]
            /\ pc' = [pc EXCEPT ![c] = "return"]
       ELSE /\ heap' = heap
            /\ pc' = [pc EXCEPT ![c] = "call"]
  /\ UNCHANGED <<builderVars, calls, workers, target, via, returned>>

\* sync.Once.doSlow: done is read again under the lock
OnceSlow(c) ==
  /\ pc[c] = "locked"
  /\ IF heap[target[c]].done
       THEN /\ heap' = [heap EXCEPT ![target[c]].m = Nil]
            /\ pc' = [pc EXCEPT ![c] = "return"]
       ELSE /\ heap' = heap
            /\ pc' = [pc EXCEPT ![c] = "call"]
  /\ UNCHANGED <<builderVars, calls, workers, target, via, returned>>

\* the function given to Do calls s.Provider(scheme, optsGetter)
ProviderCall(c) ==
  /\ pc[c] = "call"
  /\ calls' = CountCall(heap[target[c]].Provider)
  /\ pc' = [pc EXCEPT ![c] = "running"]
  /\ UNCHANGED <<builderVars, heap, workers, target, via, returned>>

\* the provider returns: s.storage, s.err = ...
ProviderReturn(c) ==
  /\ pc[c] = "running"
  /\ \E res \in Outcomes(heap[target[c]].Provider, Calls(heap[target[c]].Provider)) :
       heap' = [heap EXCEPT ![target[c]].storage = res.storage,
                            ![target[c]].err = res.err]
  /\ pc' = [pc EXCEPT ![c] = "finish"]
  /\ UNCHANGED <<builderVars, calls, workers, target, via, returned>>

\* sync.Once.doSlow's deferred calls: done.Store(1), then m.Unlock()
OnceFinish(c) ==
  /\ pc[c] = "finish"
  /\ heap' = [heap EXCEPT ![target[c]].done = TRUE, ![target[c]].m = Nil]
  /\ pc' = [pc EXCEPT ![c] = "return"]
  /\ UNCHANGED <<builderVars, calls, workers, target, via, returned>>

\* return s.storage, s.err
GetReturn(c) ==
  /\ pc[c] = "return"
  /\ returned' = returned \cup {Returned(c, via[c], heap[target[c]])}
  /\ pc' = [pc EXCEPT ![c] = "idle"]
  /\ UNCHANGED <<builderVars, heap, calls, workers, target, via>>

\* the calls on the builder
Builder ==
  \/ \E id \in UserInstallers : WithAdditionalSchemeInstallers(id)
  \/ \E sch \in ExtraSchemes : WithAdditionalSchemesToBuild(sch)
  \/ \E obj \in Objs : WithResource(obj)
  \/ \E obj \in Objs, strategy \in Strategies : WithResourceAndStrategy(obj, strategy)
  \/ \E obj \in Objs, h \in Handlers : WithResourceAndHandler(obj, HandlerFactory(h))
  \/ \E obj \in Objs, fn \in StoreFns : WithResourceAndStorage(obj, fn)
  \/ \E parent \in Objs, path \in SubPaths, request \in Requests :
       WithSubResource(parent, path, request)
  \/ \E parent \in Objs, path \in SubPaths, request \in Requests, strategy \in Strategies :
       WithSubResourceAndStrategy(parent, path, request, strategy)
  \/ \E parent \in Objs, path \in SubPaths, request \in Requests, h \in Handlers :
       WithSubResourceAndHandler(parent, path, request, HandlerFactory(h))
  \/ Build

\* the steps of singletonProvider.Get
Get ==
  \/ \E c \in Callers, gvr \in DOMAIN APIs : GetEnter(c, gvr)
  \/ \E c \in Callers : OnceDo(c)
  \/ \E c \in Callers : OnceLock(c)
  \/ \E c \in Callers : OnceSlow(c)
  \/ \E c \in Callers : ProviderCall(c)
  \/ \E c \in Callers : ProviderReturn(c)
  \/ \E c \in Callers : OnceFinish(c)
  \/ \E c \in Callers : GetReturn(c)

\* the lookups of the serving layer
Lookup ==
  \/ \E c \in Callers, gvr \in DOMAIN APIs : LookupFactory(c, gvr)
  \/ Get

\* Spec: the builder alone, from a new Server to the outcome of Build
Next == Builder
Spec == Init /\ [][Next]_vars

\* SpecServe: the builder, then one goroutine of the server looking handlers up
NextServe == Builder \/ Lookup
SpecServe == Init /\ [][NextServe]_vars

(***************************************************************************)
(* SpecGet: the server is running and its goroutines call Get concurrently.*)
(* The initial states are the ones a first registration of a resource, a   *)
(* WithResource of the same or another version of it, and Build lead to.   *)
(***************************************************************************)
EmptyRegistry ==
  [storage |-> EmptyFn, heap |-> <<>>, groupVersions |-> {},
   orderedGroupVersions |-> <<>>, APIs |-> EmptyFn, defaulting |-> {}]

\* the registry after the first registration of obj, by WithResource (h = Nil)
\* or by WithResourceAndHandler with provider h
FirstRegistration(obj, h) ==
  IF h = Nil THEN WithResourceReg(EmptyRegistry, obj)
  ELSE WithResourceAndHandlerReg(EmptyRegistry, obj, HandlerFactory(h))

InitGet ==
  \E o1 \in Objs, o2 \in Objs, h \in Handlers \cup {Nil} :
    LET r  == WithResourceReg(FirstRegistration(o1, h), o2)
        sb == <<AddToSchemeInstaller(o1), AddToSchemeInstaller(o2),
                VersionPriorityInstaller>>
        ran == StepsRun(InstallSteps(<<BaseScheme>>, sb))
    IN  /\ errs = <<>>
        /\ storage = r.storage
        /\ heap = r.heap
        /\ groupVersions = r.groupVersions
        /\ orderedGroupVersions = r.orderedGroupVersions
        /\ APIs = r.APIs
        /\ defaulting = r.defaulting
        /\ schemes = <<BaseScheme>>
        /\ schemeBuilder = sb
        /\ schemeState =
             ApplySteps([sch \in {BaseScheme} \cup ExtraSchemes |-> EmptyScheme],
                        ran, r.APIs, r.orderedGroupVersions)
        /\ installLog = ran
        /\ built = BuildOutcome(ran, <<>>, r.orderedGroupVersions)
        /\ ops = 2
        /\ lastCall = Call("WithResource", o2, Nil, NoFactory)
        /\ calls = EmptyFn
        /\ workers = Callers
        /\ pc = [c \in Callers |-> "idle"]
        /\ target = [c \in Callers |-> 0]
        /\ via = [c \in Callers |-> NoObj]
        /\ returned = {}

NextGet == Get
SpecGet == InitGet /\ [][NextGet]_vars

(***************************************************************************)
(* SpecVersions: Build on a builder whose resources span several groups    *)
(* and versions.  The initial states are the ones up to MaxRegs            *)
(* WithResource calls on a new Server lead to, in every order and with     *)
(* repetitions; the types have a status sub-resource and a default store.  *)
(***************************************************************************)
VersionGroups == {"apps", "batch"}
AllVersions == {"v1", "v2", "v10"}
VersionedObjs ==
  [gvr : [group : VersionGroups, version : AllVersions, resource : Resources],
   status : {TRUE}, rest : {FALSE}, defaulter : {FALSE}]

\* the sequences of objects given to successive WithResource calls
RegSeqs == UNION {[1..n -> VersionedObjs] : n \in 0..MaxRegs}

\* the registry after WithResource(q[1]), ..., WithResource(q[Len(q)])
RECURSIVE RegistryAfter(_)
RegistryAfter(q) ==
  IF q = <<>> THEN EmptyRegistry
  ELSE WithResourceReg(RegistryAfter(SubSeq(q, 1, Len(q) - 1)), q[Len(q)])

InitVersions ==
  \E q \in RegSeqs :
    LET r == RegistryAfter(q)
    IN  /\ errs = <<>>
        /\ storage = r.storage
        /\ heap = r.heap
        /\ groupVersions = r.groupVersions
        /\ orderedGroupVersions = r.orderedGroupVersions
        /\ APIs = r.APIs
        /\ defaulting = r.defaulting
        /\ schemes = <<>>
        /\ schemeBuilder = [i \in 1..Len(q) |-> AddToSchemeInstaller(q[i])]
        /\ schemeState = [sch \in {BaseScheme} \cup ExtraSchemes |-> EmptyScheme]
        /\ installLog = <<>>
        /\ built = NotBuilt
        /\ ops = Len(q)
        /\ lastCall = IF q = <<>> THEN NoCall
                      ELSE Call("WithResource", q[Len(q)], Nil, NoFactory)
        /\ calls = EmptyFn
        /\ workers = {"c1"}
        /\ pc = [c \in Callers |-> "idle"]
        /\ target = [c \in Callers |-> 0]
        /\ via = [c \in Callers |-> NoObj]
        /\ returned = {}

NextVersions == Build
SpecVersions == InitVersions /\ [][NextVersions]_vars

(***************************************************************************)
(* The claims.                                                             *)
(***************************************************************************)
\* the factory wrapped by the singletonProvider stored for key k's group-resource
StoredFactory(k) == heap[storage[GroupResource(k)]].Provider
\* k is the key of a resource, not of a sub-resource
IsPrimary(k) == k.resource \in Resources
\* the lookups that went through key k
Via(k) == {r \in returned : r.via = k}
\* the factory whose call produced what lookup r returned
MadeBy(r) == IF r.err = NilErr THEN r.storage.handler ELSE r.err.failed

\* C1: two keys of one group-resource at different versions, the second
\* registered by WithResource after the first (so it is bound to s.Get of the
\* stored singletonProvider): once the handler has been looked up through
\* each of the two keys, every lookup through either has returned the
\* identical handler, and the wrapped factory has run exactly once in total.
C1_SharedHandlerOnce ==
  \A k1 \in DOMAIN APIs, k2 \in DOMAIN APIs :
    ( /\ IsPrimary(k1) /\ IsPrimary(k2)
      /\ GroupResource(k1) = GroupResource(k2)
      /\ k1.version # k2.version
      /\ APIs[k2] = SingletonGet(storage[GroupResource(k2)])
      /\ Via(k1) # {} /\ Via(k2) # {} )
    => /\ \A r1 \in Via(k1) \cup Via(k2), r2 \in Via(k1) \cup Via(k2) :
            r1.storage = r2.storage /\ r1.err = r2.err
       /\ Calls(StoredFactory(k1)) = 1

\* C4: a primary key's group-resource was first registered with factory F1;
\* whatever is registered for it afterwards, every lookup through a key of that
\* group-resource returns what F1 made: no other factory is invoked.
C4_FirstFactoryWins ==
  \A r \in returned :
    IsPrimary(r.via) => MadeBy(r) = StoredFactory(r.via)

\* C8: when WithResource(obj) has returned for an obj that implements the
\* status capability, the key (group, version, resource + "/status") is bound.
C8_StatusAutoRegistered ==
  (lastCall.op = "WithResource" /\ lastCall.obj.status)
    => SubResourceOf(lastCall.obj.gvr, "status") \in DOMAIN APIs

\* C9: the status provider was auto-created by WithResource at version v1 and
\* the status key is also bound at another version v2: the v2 binding is the
\* Get of the provider created at v1, and the lookups through the two bindings
\* have invoked the status factory at most once in total.
C9_StatusProviderReused ==
  \A k1 \in DOMAIN APIs, k2 \in DOMAIN APIs :
    ( /\ ~IsPrimary(k1)
      /\ GroupResource(k1) = GroupResource(k2)
      /\ k1.version # k2.version
      /\ StoredFactory(k1).kind = "rest.NewStatus"
      /\ StoredFactory(k1).of.gvr.version = k1.version )
    => /\ APIs[k2] = SingletonGet(storage[GroupResource(k1)])
       /\ Calls(StoredFactory(k1)) <= 1

\* the child key a sub-resource call registers
ChildKey(c) == SubResourceOf(c.obj.gvr, c.path)
IsSubResourceCall(c) ==
  c.op \in {"WithSubResource", "WithSubResourceAndHandler", "WithSubResourceAndStrategy"}

\* C10: a sub-resource call made when the child's group-resource already had a
\* provider (so the stored factory is not the one the call supplied) binds the
\* child key to the Get of the existing provider, and no lookup through the
\* child key returns something the supplied factory made.
C10_SubResourceReusesProvider ==
  ( /\ IsSubResourceCall(lastCall)
    /\ ChildKey(lastCall) \in DOMAIN APIs
    /\ StoredFactory(ChildKey(lastCall)) # lastCall.sp )
  => /\ APIs[ChildKey(lastCall)] = SingletonGet(storage[GroupResource(ChildKey(lastCall))])
     /\ \A r \in Via(ChildKey(lastCall)) : MadeBy(r) # lastCall.sp

\* the position of the first newline of string str, 0 when it has none
FirstNewline(str) ==
  IF \E i \in 1..Len(str) : SubSeq(str, i, i) = "\n"
    THEN CHOOSE i \in 1..Len(str) :
           /\ SubSeq(str, i, i) = "\n"
           /\ \A j \in 1..(i-1) : SubSeq(str, j, j) # "\n"
    ELSE 0

\* the lines of string str
RECURSIVE Lines(_)
Lines(str) ==
  IF FirstNewline(str) = 0 THEN <<str>>
  ELSE <<SubSeq(str, 1, FirstNewline(str) - 1)>>
         \o Lines(SubSeq(str, FirstNewline(str) + 1, Len(str)))

\* Build has been called and returned or panicked
BuildCalled == built.kind # "none"
\* some installer registered with the builder fails
SomeInstallerFails ==
  \E i \in 1..Len(schemeBuilder) : InstallerFails(schemeBuilder[i])
\* the error Build returned is the aggregate of n >= 1 errors, among them the
\* sub-resource message
CarriesSubResourceErr(msg) ==
  /\ \E n \in 1..Len(errs) : Lines(msg)[1] = ToString(n) \o " errors: "
  /\ \E i \in 2..Len(Lines(msg)) : Lines(msg)[i] = SubResourceErr

\* a step that is a WithSubResource call finding no provider for the child key
FailedWithSubResource ==
  /\ ops' = ops + 1
  /\ lastCall'.op = "WithSubResource"
  /\ ~Found(Registry, GroupResource(ChildKey(lastCall')))

\* C5: a step of the builder (a registration call or Build) leaves every
\* entry of the storage map as it is: the same singletonProvider object under
\* the key, wrapping the same factory.
C5_StorageEntriesKept ==
  [][\A gr \in DOMAIN storage :
       /\ gr \in DOMAIN storage'
       /\ storage'[gr] = storage[gr]
       /\ heap'[storage'[gr]].Provider = heap[storage[gr]].Provider]_vars

\* C5's case: the last call supplied a factory for a primary key whose
\* group-resource holds a provider wrapping another factory
C5_Witness ==
  /\ lastCall.op = "WithResourceAndHandler"
  /\ StoredFactory(lastCall.obj.gvr) # lastCall.sp
  /\ StoredFactory(lastCall.obj.gvr).kind = "handler"

\* C6, as stated: once WithSubResource has recorded its error, Build() fails
\* with an error that carries a count >= 1 and the sub-resource message.
C6_BuildReportsSubResourceErr ==
  (errs # <<>> /\ BuildCalled)
    => built.kind = "error" /\ CarriesSubResourceErr(built.err)

\* C6, amended: a WithSubResource call that finds no provider for the child key
\* appends the sub-resource message to errs, and registration calls stay
\* enabled; after it Build() never returns a command: it returns the aggregate
\* error, with a count >= 1 and the message, unless a scheme installer fails, in
\* which case Build() panics with the installer's error.
C6_SubResourceErrDeferred ==
  /\ [][FailedWithSubResource => errs' = Append(errs, SubResourceErr)]_vars
  /\ []((errs # <<>> /\ MayCall) => ENABLED (\E obj \in Objs : WithResource(obj)))
  /\ []((errs # <<>> /\ BuildCalled) =>
          /\ built.kind \in {"error", "panic"}
          /\ built.kind = "panic" <=> SomeInstallerFails
          /\ built.kind = "error" => CarriesSubResourceErr(built.err))

\* C6's case: WithSubResource failed, a later registration took effect, and
\* Build returned the aggregate error
C6_Witness ==
  /\ built.kind = "error"
  /\ lastCall.op = "WithResource"
  /\ lastCall.obj.gvr \in DOMAIN APIs

\* C7, as stated: Build() returns a command iff no deferred error was
\* recorded, and otherwise the aggregate error: the count and then every
\* recorded error, one per line, in order.
C7_BuildCommandIffNoErrs ==
  BuildCalled =>
    /\ built.kind = "command" <=> errs = <<>>
    /\ errs # <<>> =>
         /\ built.kind = "error"
         /\ built.cmd = <<>>
         /\ Lines(built.err) = <<ToString(Len(errs)) \o " errors: ">> \o errs

\* C7, amended: when no scheme installer fails, Build() returns a command and
\* no error iff no deferred error was recorded, and otherwise no command and the
\* aggregate error (the count, then every recorded error, one per line, in the
\* order recorded); when a scheme installer fails, Build() panics with that
\* installer's error and returns neither.
C7_BuildOutcome ==
  BuildCalled =>
    /\ built.kind = "panic" <=> SomeInstallerFails
    /\ built.kind = "panic" => built.cmd = <<>> /\ built.err = "installFail"
    /\ built.kind = "command" <=> (errs = <<>> /\ ~SomeInstallerFails)
    /\ built.kind = "command" => built.err = Nil /\ built.cmd = orderedGroupVersions
    /\ (errs # <<>> /\ ~SomeInstallerFails) =>
         /\ built.kind = "error"
         /\ built.cmd = <<>>
         /\ Lines(built.err) = <<ToString(Len(errs)) \o " errors: ">> \o errs

\* C7's case: Build returned the aggregate of two recorded errors
C7_Witness == built.kind = "error" /\ Len(errs) = 2

\* the singletonProvider objects, and the one a key's binding s.Get belongs to
Singletons == 1..Len(heap)
BoundTo(k) == IF IsSingletonGet(APIs[k]) THEN SingletonOf(APIs[k]) ELSE 0
\* the callers inside Get on singletonProvider s
InGet(s) == {c \in Callers : pc[c] # "idle" /\ target[c] = s}

\* C2: for every singletonProvider s, under every interleaving of the callers'
\* Get steps: the wrapped factory has been invoked at most once; a caller that
\* is past Once.Do, or has returned, finds the one invocation made and
\* completed (no caller is still in it); and every Get has returned the pair
\* (storage, err) that invocation stored, so all callers got the same pair.
C2_ConcurrentGetOnce ==
  \A s \in Singletons :
    /\ Calls(heap[s].Provider) <= 1
    /\ \A c \in InGet(s) :
         pc[c] = "return" =>
           /\ heap[s].done
           /\ Calls(heap[s].Provider) = 1
           /\ \A d \in InGet(s) : pc[d] \notin {"call", "running", "finish"}
    /\ \A r \in returned :
         BoundTo(r.via) = s =>
           /\ Calls(heap[s].Provider) = 1
           /\ heap[s].done
           /\ r.storage = heap[s].storage
           /\ r.err = heap[s].err

\* C2's case: every one of the callers has called Get and returned from it
C2_Witness ==
  /\ \A c \in Callers : \E r \in returned : r.by = c
  /\ \E r \in returned : BoundTo(r.via) # 0

\* C3: once a singletonProvider holds the error of its factory's invocation,
\* no step changes the cached error or storage or invokes the factory again,
\* and every Get that returns in the step returns that error and storage.
C3_ErrorCached ==
  [][\A s \in Singletons :
       (heap[s].done /\ heap[s].err # NilErr) =>
         /\ Calls(heap[s].Provider) = 1
         /\ heap'[s].err = heap[s].err
         /\ heap'[s].storage = heap[s].storage
         /\ heap[s].Provider \in DOMAIN calls'
         /\ calls'[heap[s].Provider] = 1
         /\ \A r \in returned' \ returned :
              BoundTo(r.via) = s => r.err = heap[s].err /\ r.storage = heap[s].storage]_vars

\* C3's case: the factory failed, one Get has returned the cached error and
\* another caller's Get is about to return
C3_Witness ==
  \E s \in Singletons :
    /\ heap[s].done
    /\ heap[s].err # NilErr
    /\ \E r \in returned : BoundTo(r.via) = s /\ r.err = heap[s].err
    /\ \E c \in InGet(s) : pc[c] = "return"

\* the version-priority list the scheme sch holds for group g
PriorityOf(sch, g) == schemeState[sch].priority[g]
\* Build returned, so every installer ran on every scheme
BuildReturned == built.kind \in {"command", "error"}
\* the schemes Build applied the installers to
TargetSchemes == {schemes[i] : i \in 1..Len(schemes)}

\* C11: Build has returned; take any other sequence of registration calls
\* that observes the same set of (group, version) pairs, in any order and with
\* any repetitions: the per-group version lists the version-priority installer
\* passes to the scheme after that sequence are the lists this scheme holds.
C11_PrioritiesOrderIndependent ==
  BuildReturned =>
    \A q \in RegSeqs :
      LET r == RegistryAfter(q)
      IN  r.groupVersions = groupVersions =>
            \A sch \in TargetSchemes :
              schemeState[sch].priority =
                InstallVersionPriority(EmptyScheme, r.APIs, r.orderedGroupVersions).priority

\* C11's case: three versions of one group were observed in another order than
\* the one Build passed on
C11_Witness ==
  /\ BuildReturned
  /\ Len(orderedGroupVersions) = 3
  /\ orderedGroupVersions[1] = [group |-> "apps", version |-> "v2"]
  /\ orderedGroupVersions[3] = [group |-> "apps", version |-> "v1"]
  /\ PriorityOf(BaseScheme, "apps") = <<"v1", "v10", "v2">>

\* the versions bound under group g in apiserver.APIs
BoundVersions(g) == {k.version : k \in {x \in DOMAIN APIs : x.group = g}}
\* a < b for version strings, compared as Go compares strings
Ascending(list) ==
  \A i \in 1..Len(list), j \in 1..Len(list) :
    i < j => VersionLess(list[i], list[j])

\* C15: Build has returned: for every group with a bound key, the list the
\* scheme holds has one entry per version bound under the group, whatever the
\* number of resources and sub-resources that share the version, and its
\* entries ascend in the order of the version strings.
C15_PrioritySortedDistinct ==
  BuildReturned =>
    \A sch \in TargetSchemes :
      /\ DOMAIN schemeState[sch].priority = {k.group : k \in DOMAIN APIs}
      /\ \A g \in DOMAIN schemeState[sch].priority :
           /\ Len(PriorityOf(sch, g)) = Cardinality(BoundVersions(g))
           /\ {PriorityOf(sch, g)[i] : i \in 1..Len(PriorityOf(sch, g))} = BoundVersions(g)
           /\ Ascending(PriorityOf(sch, g))

\* C15's case: v10 and v2 are bound under one group, one of them by a
\* resource and its status sub-resource, after a repeated registration
C15_Witness ==
  /\ BuildReturned
  /\ ops = 3
  /\ Cardinality({k \in DOMAIN APIs : k.group = "batch"}) = 3
  /\ PriorityOf(BaseScheme, "batch") = <<"v10", "v2">>

\* C12: Build was called with an installer that fails: Build ended in the
\* abort (the panic of line 348) carrying that installer's error, not the
\* aggregate of the deferred errors, whether or not errors were recorded; it
\* returned no command; the failing step is the last one taken and the first
\* that failed; it was taken on the first scheme, and no other scheme and no
\* later installer (the version-priority installer among them) was processed.
C12_InstallerFailureAborts ==
  (BuildCalled /\ SomeInstallerFails) =>
    /\ built.kind = "panic"
    /\ built.cmd = <<>>
    /\ installLog # <<>>
    /\ InstallerFails(installLog[Len(installLog)][2])
    /\ built.err = installLog[Len(installLog)][2].id
    /\ built.err # ErrsError(errs)
    /\ \A k \in 1..(Len(installLog) - 1) : ~InstallerFails(installLog[k][2])
    /\ \A k \in 1..Len(installLog) : installLog[k] = <<schemes[1], schemeBuilder[k]>>
    /\ \A sch \in TargetSchemes \ {schemes[1]} : schemeState[sch] = EmptyScheme
    /\ schemeState[schemes[1]].priority = EmptyFn
    /\ schemeState[schemes[1]].meta = {}

\* C12's case: an installer failed in a Build that had deferred errors too
C12_Witness ==
  /\ built.kind = "panic"
  /\ errs # <<>>

\* a step that is a call of Build
BuildStep == Accumulating /\ built'.kind # "none"
\* the k-th <<scheme, installer>> pair when every installer of sb is applied
\* to every scheme of ss, scheme by scheme
OrderedStep(ss, sb, k) ==
  <<ss[((k - 1) \div Len(sb)) + 1], sb[((k - 1) % Len(sb)) + 1]>>
\* the installers of sequence sb
InstallersOf(sb) == {sb[j] : j \in 1..Len(sb)}

\* C13: a call of Build appends apiserver.Scheme after the schemes already
\* listed and the version-priority installer after the installers already
\* registered; the steps it takes are, in order, scheme by scheme in list
\* order and within a scheme installer by installer in registration order;
\* and when it returns, with the command or with the aggregate error, every
\* installer has run on every scheme.
C13_BuildOrder ==
  [][BuildStep =>
       /\ schemes' = Append(schemes, BaseScheme)
       /\ schemeBuilder' = Append(schemeBuilder, VersionPriorityInstaller)
       /\ Len(installLog') <= Len(schemes') * Len(schemeBuilder')
       /\ \A k \in 1..Len(installLog') :
            installLog'[k] = OrderedStep(schemes', schemeBuilder', k)
       /\ (errs # <<>> /\ ~SomeInstallerFails) => built'.kind = "error"
       /\ built'.kind \in {"command", "error"} =>
            /\ Len(installLog') = Len(schemes') * Len(schemeBuilder')
            /\ \A i \in 1..Len(schemes') :
                 /\ schemeState'[schemes'[i]].types =
                      {f.of : f \in {x \in InstallersOf(schemeBuilder) : x.kind = "AddToScheme"}}
                 /\ schemeState'[schemes'[i]].user =
                      {f.id : f \in {x \in InstallersOf(schemeBuilder) : x.kind = "user"}}
                 /\ DOMAIN schemeState'[schemes'[i]].priority = {k.group : k \in DOMAIN APIs}
                 /\ schemeState'[schemes'[i]].meta = groupVersions]_vars

\* C13's case: Build returned the aggregate error after the installers ran
\* on an added scheme and then on apiserver.Scheme
C13_Witness ==
  /\ built.kind = "error"
  /\ schemes = <<"extraScheme", BaseScheme>>
  /\ Len(installLog) = Len(schemes) * Len(schemeBuilder)

\* the registration calls that reach forGroupVersionResource
RegistersKey(c) ==
  c.op \in {"WithResource", "WithResourceAndStrategy", "WithResourceAndHandler",
            "WithResourceAndStorage", "WithSubResourceAndStrategy",
            "WithSubResourceAndHandler"}
\* no element of list occurs twice
Distinct(list) ==
  \A i \in 1..Len(list), j \in 1..Len(list) : list[i] = list[j] => i = j
\* the elements of list
Elements(list) == {list[i] : i \in 1..Len(list)}

\* C14: orderedGroupVersions holds every observed pair (the group-version of
\* every bound key) once, and its elements are the keys of groupVersions; a
\* step never reorders or drops what the list holds; a registration that
\* observes a pair already present changes neither the list nor groupVersions,
\* and one that observes a new pair appends it to the list.
C14_FirstSeenOrder ==
  /\ [](/\ Distinct(orderedGroupVersions)
        /\ Elements(orderedGroupVersions) = groupVersions
        /\ \A k \in DOMAIN APIs : GroupVersion(k) \in groupVersions)
  /\ [][/\ Len(orderedGroupVersions) <= Len(orderedGroupVersions')
         /\ SubSeq(orderedGroupVersions', 1, Len(orderedGroupVersions)) = orderedGroupVersions
         /\ ( /\ ops' = ops + 1
              /\ \/ RegistersKey(lastCall')
                 \/ /\ lastCall'.op = "WithSubResource"
                    /\ Found(Registry, GroupResource(ChildKey(lastCall'))) ) =>
              IF GroupVersion(lastCall'.obj.gvr) \in groupVersions
                THEN UNCHANGED <<orderedGroupVersions, groupVersions>>
                ELSE /\ orderedGroupVersions' =
                          Append(orderedGroupVersions, GroupVersion(lastCall'.obj.gvr))
                     /\ groupVersions' = groupVersions \cup {GroupVersion(lastCall'.obj.gvr)}]_vars

\* C14's case: a sub-resource was registered at the group-version its parent
\* had been registered at before
C14_Witness ==
  /\ ops = 2
  /\ lastCall.op = "WithSubResourceAndHandler"
  /\ lastCall.obj.gvr \in DOMAIN APIs
  /\ ChildKey(lastCall) \in DOMAIN APIs
  /\ Len(orderedGroupVersions) = 1

\* a step that is a call of WithResource
WithResourceStep == ops' = ops + 1 /\ lastCall'.op = "WithResource"
\* the factories that construct a default store
IsDefaultStore(sp) == sp.kind \in {"rest.New", "rest.NewStatus"}

\* C16: a WithResource(obj) call binds the object's key (1) to the Get of the
\* provider its group-resource already has, creating none; (2) otherwise, when
\* the object implements a serving interface, to a provider that returns the
\* object itself, and no default store factory is created or bound by the call;
\* (3) otherwise to a new default store factory.
C16_HandlerPrecedence ==
  [][WithResourceStep =>
       LET obj == lastCall'.obj
           gvr == obj.gvr
           gr  == GroupResource(gvr)
           own == Factory("StaticHandlerProvider", obj, Nil)
       IN  /\ gvr \in DOMAIN APIs'
           /\ gr \in DOMAIN storage'
           /\ IF gr \in DOMAIN storage
                THEN /\ APIs'[gvr] = SingletonGet(storage[gr])
                     /\ heap' = heap
                     /\ storage' = storage
              ELSE IF obj.rest
                THEN /\ APIs'[gvr] = own
                     /\ heap'[storage'[gr]].Provider = own
                     /\ Outcomes(own, 1) = {[storage |-> Storage(own, 0), err |-> NilErr]}
                     /\ Len(heap') = Len(heap) + 1
                     /\ \A k \in DOMAIN APIs' :
                          IsDefaultStore(APIs'[k]) => k \in DOMAIN APIs /\ APIs[k] = APIs'[k]
                ELSE /\ APIs'[gvr] = Factory("rest.New", obj, Nil)
                     /\ heap'[storage'[gr]].Provider = Factory("rest.New", obj, Nil)]_vars

\* C16's case: WithResource of an object that serves itself, for a
\* group-resource that had a provider: the provider is reused
C16_Witness ==
  /\ lastCall.op = "WithResource"
  /\ lastCall.obj.rest
  /\ APIs[lastCall.obj.gvr] = SingletonGet(storage[GroupResource(lastCall.obj.gvr)])
  /\ StoredFactory(lastCall.obj.gvr).kind = "handler"

\* some version of the resource gvr names is bound
ParentRegistered(gvr) ==
  \E p \in DOMAIN APIs : IsPrimary(p) /\ GroupResource(p) = GroupResource(gvr)
\* key k is a sub-resource of the resource gvr names
IsChildOf(k, gvr) ==
  \E path \in SubPaths : GroupResource(k) = GroupResource(SubResourceOf(gvr, path))
\* the registration calls of a resource
IsResourceCall(c) ==
  c.op \in {"WithResource", "WithResourceAndStrategy", "WithResourceAndHandler",
            "WithResourceAndStorage"}

\* C17: a WithSubResourceAndHandler or WithSubResourceAndStrategy call made
\* when no version of the parent is registered (and the child's group-resource
\* has no provider) binds the child key to the supplied provider, creates a
\* provider wrapping it for the child's group-resource, observes the child's
\* group-version and records no error; and a later first registration of the
\* parent leaves every such child key bound as it was: to the provider it was
\* registered with, or to the Get of the singletonProvider that wraps it.
C17_SubResourceBeforeParent ==
  [][/\ (/\ ops' = ops + 1
         /\ lastCall'.op \in {"WithSubResourceAndHandler", "WithSubResourceAndStrategy"}
         /\ ~ParentRegistered(lastCall'.obj.gvr)
         /\ GroupResource(ChildKey(lastCall')) \notin DOMAIN storage)
       => /\ ChildKey(lastCall') \in DOMAIN APIs'
          /\ APIs'[ChildKey(lastCall')] = lastCall'.sp
          /\ GroupResource(ChildKey(lastCall')) \in DOMAIN storage'
          /\ heap'[storage'[GroupResource(ChildKey(lastCall'))]].Provider = lastCall'.sp
          /\ GroupVersion(ChildKey(lastCall')) \in groupVersions'
          /\ GroupVersion(ChildKey(lastCall')) \in Elements(orderedGroupVersions')
          /\ errs' = errs
     /\ (/\ ops' = ops + 1
         /\ IsResourceCall(lastCall')
         /\ ~ParentRegistered(lastCall'.obj.gvr))
       => (\A k \in {x \in DOMAIN APIs : /\ IsChildOf(x, lastCall'.obj.gvr)
                                        /\ APIs[x] = StoredFactory(x)} :
             /\ k \in DOMAIN APIs'
             /\ \/ APIs'[k] = APIs[k]
                \/ APIs'[k] = SingletonGet(storage[GroupResource(k)]))]_vars

\* the versions the collector recorded for group g
CollectedVersions(g) == {gv.version : gv \in {x \in groupVersions : x.group = g}}

\* C18: every bound key has a provider under its group-resource and its
\* group-version in orderedGroupVersions; every group-resource of the storage
\* map and every group-version of the list has a bound key; so for every group
\* the versions of the bound keys are the versions the collector recorded.
C18_RegistryConsistent ==
  /\ \A k \in DOMAIN APIs :
       /\ GroupResource(k) \in DOMAIN storage
       /\ storage[GroupResource(k)] \in Singletons
       /\ GroupVersion(k) \in Elements(orderedGroupVersions)
  /\ \A gr \in DOMAIN storage : \E k \in DOMAIN APIs : GroupResource(k) = gr
  /\ \A gv \in Elements(orderedGroupVersions) : \E k \in DOMAIN APIs : GroupVersion(k) = gv
  /\ \A g \in Groups : BoundVersions(g) = CollectedVersions(g)

\* C18's case: two group-resources, two group-versions and three bound keys
C18_Witness ==
  /\ Cardinality(DOMAIN storage) = 2
  /\ Len(orderedGroupVersions) = 2
  /\ Cardinality(DOMAIN APIs) = 3

\* C19: a WithSubResource call that finds no provider for the child's
\* group-resource appends one entry to errs and changes nothing else: not the
\* storage map or its providers, the bound keys, groupVersions,
\* orderedGroupVersions, the installers, the schemes or the defaulting
\* functions; and it invokes no factory.
C19_FailedSubResourceFrame ==
  [][FailedWithSubResource =>
       /\ Len(errs') = Len(errs) + 1
       /\ SubSeq(errs', 1, Len(errs)) = errs
       /\ UNCHANGED <<storage, heap, APIs, groupVersions, orderedGroupVersions,
                      schemeBuilder, schemes, defaulting, schemeState, installLog,
                      built, calls, returned>>]_vars

\* C19's case: WithSubResource failed on a builder that had a resource bound
C19_Witness ==
  /\ lastCall.op = "WithSubResource"
  /\ Len(errs) = 1
  /\ lastCall.obj.gvr \in DOMAIN APIs
  /\ GroupResource(ChildKey(lastCall)) \notin DOMAIN storage
====
